---- MODULE Spec2Model ----
(***************************************************************************)
(* A model of the groupchat (MUC) session and stanza-routing utilities of  *)
(* converse.js: src/src/headless/plugins/muc/utils.js.                     *)
(*                                                                         *)
(* The Room Directory (_converse.chatboxes, api.rooms.get / api.rooms.open)*)
(* and the per-room session state machine (join, rejoin,                   *)
(* rejoinIfNecessary) are collaborators whose code is not part of the      *)
(* source files at hand; they are modelled from the specification and are  *)
(* marked so where they are defined.                                       *)
(*                                                                         *)
(* Every asynchronous function is cut at its await points: the part up to  *)
(* the first await is one action, and each continuation is a task in       *)
(* the bag `tasks` that a Resume action runs later, in any order.          *)
(***************************************************************************)
EXTENDS Naturals, Sequences, FiniteSets, Bags, TLC

(* ------------------------------ bounds -------------------------------- *)

\* Continuations that may be suspended at the same time.
MaxTasks == 2
\* Length of the auto_join_rooms list.
MaxEntries == 2
\* Length of the modtools_disable_assign array.
MaxDisabled == 3
\* Groupchat stanzas the router sees.
MaxStanzas == 3

(* ----------------------------- constants ------------------------------ *)

DISCONNECTED == "disconnected"
CONNECTING == "connecting"
CONNECTED == "connected"
\* converse.ROOMSTATUS, restricted to the three states of the session machine.
ROOMSTATUS == {DISCONNECTED, CONNECTING, CONNECTED}

\* _converse.CHATROOMS_TYPE and the type of a one-to-one chat.
CHATROOMS_TYPE == "chatroom"
PRIVATE_CHAT_TYPE == "chatbox"

\* A chatbox that is not a groupchat has no session state of its own.
NoSession == "none"
\* An attribute the caller did not supply.
Unset == "unset"

\* The rooms and the one-to-one chat of the model.
RoomJIDs == {"r1@muc", "r2@muc"}
ChatJID == "c1@im"
Passwords == {Unset, "secret"}

\* ROLES of plugins/muc/index.js, in its order.
ROLES == <<"moderator", "participant", "visitor">>

(* ------------------------------ state --------------------------------- *)

VARIABLES
    chatboxes,  \* _converse.chatboxes: instance -> chatbox attributes
    fetched,    \* the chatBoxesFetched milestone has fired
    tasks,      \* the bag of suspended continuations
    autojoin,   \* the one run of autoJoinRooms: its position and its log
    obtained,   \* room JID -> the instances get-or-create has handed out
    handled,    \* <<room JID, stanza id, raced>> of the notifications that reached
                \* their room; raced: a second delivery was suspended at that time
    last,       \* the step just taken: its operation and its inputs
    before,     \* connection_status of every chatbox before that step, when the
                \* step is one that may rewrite the session state of many rooms
    sent,       \* instances a join presence was sent for in that step
    handlers,   \* the stanza handlers registered with the connection
    deferred,   \* the router's continuations waiting for chatBoxesFetched, in
                \* the order of their registration
    arrived,    \* the groupchat stanzas the router has seen, in arrival order
    bookmarksInitialized    \* the bookmarksInitialized milestone has fired

\* What only the router and routeToRoom touch.
routing == <<deferred, arrived, bookmarksInitialized>>

vars == <<chatboxes, fetched, tasks, autojoin, obtained, handled, last, before, sent,
          handlers, deferred, arrived, bookmarksInitialized>>

(* ----------------------------- helpers -------------------------------- *)

Range(s) == {s[i] : i \in DOMAIN s}

\* An instance is named by the JID it was made for and by how many instances
\* were made for that JID before it.
NoRoom == <<Unset, 0>>
NewInstance(boxes, jid) == <<jid, Cardinality({i \in DOMAIN boxes : i[1] = jid}) + 1>>

Suspend(bag, t) == bag (+) SetToBag({t})
Finish(bag, t) == bag (-) SetToBag({t})

StatusOf(boxes) == [i \in DOMAIN boxes |-> boxes[i].connection_status]

Rooms(boxes) == {i \in DOMAIN boxes : boxes[i].type = CHATROOMS_TYPE}

NoSettings == [type |-> Unset, id |-> Unset, password |-> Unset, has_password |-> FALSE]

NoAutoJoin ==
    [pc |-> "idle", entries |-> <<>>, errors |-> {}, opened |-> {},
     pending |-> {}, fired |-> 0]

Task(kind, jid, settings) ==
    [kind |-> kind, jid |-> jid, settings |-> settings, caller |-> "user",
     inst |-> NoRoom, ix |-> 0, msgid |-> Unset]

\* The get-or-create requests suspended for a JID.
Opening(bag, jid) ==
    {t \in BagToSet(bag) : t.kind \in {"openChatRoom", "rooms.open"} /\ t.jid = jid}

(* ------------------- the Room Directory (spec, 4.1) ------------------- *)

\* _converse.chatboxes.get(id): the chatboxes with that id.
ChatboxesGet(boxes, id) == {i \in DOMAIN boxes : boxes[i].id = id}

\* _converse.chatboxes.where({jid}).
ChatboxesWhereJid(boxes, jid) == {i \in DOMAIN boxes : boxes[i].jid = jid}

\* A Room as the directory constructs it: type groupchat and id = jid unless the
\* caller's settings say otherwise, session state disconnected, not initialized.
NewRoom(jid, settings) ==
    [id |-> IF settings.id = Unset THEN jid ELSE settings.id,
     jid |-> jid,
     type |-> IF settings.type = Unset THEN CHATROOMS_TYPE ELSE settings.type,
     password |-> settings.password,
     connection_status |-> DISCONNECTED,
     initialized |-> FALSE,
     messages |-> <<>>,
     restored |-> FALSE,
     awaiting |-> <<>>,
     ran |-> <<>>]

\* The caller's settings merged into an existing Room.
MergeSettings(box, settings) ==
    IF settings.has_password THEN [box EXCEPT !.password = settings.password] ELSE box

\* The directory with one more Room, and that Room's instance.
RoomsCreate(boxes, jid, settings) ==
    LET n == NewInstance(boxes, jid)
    IN  [boxes |-> [i \in DOMAIN boxes \cup {n} |->
                       IF i = n THEN NewRoom(jid, settings) ELSE boxes[i]],
         inst |-> n]

\* A variant that constructs a Room without looking for an existing one.
RoomsGetUnserialized(boxes, jid, settings, create) ==
    IF create
    THEN RoomsCreate(boxes, jid, settings)
    ELSE [boxes |-> boxes, inst |-> NoRoom]

\* api.rooms.get(jid, settings, create): the existing Room (settings merged in),
\* or, with create, a new one; NoRoom when there is none. Lookup and creation
\* are one step: creation is serialized per JID.
RoomsGet(boxes, jid, settings, create) ==
    LET found == {i \in ChatboxesGet(boxes, jid) : boxes[i].type = CHATROOMS_TYPE}
    IN  IF found # {}
        THEN LET i == CHOOSE x \in found : TRUE
             IN  [boxes |-> [boxes EXCEPT ![i] = MergeSettings(boxes[i], settings)],
                  inst |-> i]
        ELSE IF create
             THEN RoomsCreate(boxes, jid, settings)
             ELSE [boxes |-> boxes, inst |-> NoRoom]

(* ---------------- the session state machine (spec, 4.2) --------------- *)

\* room.rejoin(): the room leaves whatever state it is in and joins again.
rejoin(box) == [box EXCEPT !.connection_status = CONNECTING]

\* room.rejoinIfNecessary(): a no-op on a connected room.
rejoinIfNecessary(box) ==
    IF box.connection_status = CONNECTED THEN box ELSE rejoin(box)

\* room.join(): an open/join request moves a disconnected room to connecting.
join(box) ==
    IF box.connection_status = DISCONNECTED
    THEN [box EXCEPT !.connection_status = CONNECTING]
    ELSE box

\* What every step records about itself.
Observe(op, joined) ==
    /\ last' = op
    /\ before' = <<>>
    /\ sent' = joined

\* The same for a step that rewrites the session state of the rooms.
ObserveRooms(op, joined) ==
    /\ last' = op
    /\ before' = StatusOf(chatboxes)
    /\ sent' = joined

(* ------------------ the connection's stanza handlers ------------------ *)

\* The handlers this module registers: registerDirectInvitationHandler,
\* registerPEPPushHandler (headline and groupchat), onBeforeResourceBinding.
Handlers == {"invitation", "mep.headline", "mep.groupchat", "router"}

\* The connection once a handler has run on a stanza: the handler stays
\* registered if it returned true and is removed if it returned anything else
\* or threw.
HandlerRan(registered, h, returned) ==
    IF returned = "true" THEN registered ELSE registered \ {h}

(* ------------------------------ Init ---------------------------------- *)

Init ==
    /\ chatboxes = <<>>
    /\ fetched = FALSE
    /\ tasks = EmptyBag
    /\ autojoin = NoAutoJoin
    /\ obtained = [j \in RoomJIDs |-> {}]
    /\ handled = {}
    /\ last = [op |-> "init"]
    /\ before = <<>>
    /\ sent = {}
    /\ handlers = Handlers
    /\ deferred = <<>>
    /\ arrived = <<>>
    /\ bookmarksInitialized = FALSE

(* --------------------- the storage layer (spec, 6) -------------------- *)

\* A chatbox as it is reloaded on startup: a room comes back disconnected and
\* still to be initialized; a one-to-one chat has no session.
RestoredBox(jid) ==
    IF jid \in RoomJIDs
    THEN [NewRoom(jid, NoSettings) EXCEPT !.restored = TRUE]
    ELSE [id |-> jid, jid |-> jid, type |-> PRIVATE_CHAT_TYPE, password |-> Unset,
          connection_status |-> NoSession, initialized |-> TRUE, messages |-> <<>>,
          restored |-> TRUE, awaiting |-> <<>>, ran |-> <<>>]

\* A variant of the router's continuation that puts the stanza before those
\* that wait already.
RouterReplayNewestFirst(boxes, stanza) ==
    LET found == ChatboxesGet(boxes, stanza.jid)
    IN  IF found = {}
        THEN boxes
        ELSE LET muc == CHOOSE x \in found : TRUE
             IN  IF boxes[muc].initialized
                 THEN [boxes EXCEPT ![muc].ran = <<stanza.id>> \o @]
                 ELSE [boxes EXCEPT ![muc].awaiting = <<stanza.id>> \o @]

\* onBeforeResourceBinding, lines 270-274: the router's continuation for one
\* stanza, run once chatBoxesFetched has fired. With no chatbox for the JID
\* the stanza is dropped; otherwise it waits for muc.initialized behind the
\* stanzas that wait for it already (awaiting), or, the room being initialized,
\* is run through the room's message handler (ran).
RouterReplay(boxes, stanza) ==
    LET found == ChatboxesGet(boxes, stanza.jid)
    IN  IF found = {}
        THEN boxes
        ELSE LET muc == CHOOSE x \in found : TRUE
             IN  IF boxes[muc].initialized
                 THEN [boxes EXCEPT ![muc].ran = Append(@, stanza.id)]
                 ELSE [boxes EXCEPT ![muc].awaiting = Append(@, stanza.id)]

\* The continuations registered on the chatBoxesFetched promise run in the
\* order of their registration, before any other event is handled.
RECURSIVE RouterReplayAll(_, _)
RouterReplayAll(boxes, queue) ==
    IF queue = <<>> THEN boxes
    ELSE RouterReplayAll(RouterReplay(boxes, Head(queue)), Tail(queue))

\* Lines 272-273 for a room whose initialized promise resolves: the
\* continuations that await it resume in the order in which they began to wait.
RunAwaiting(box) ==
    [box EXCEPT !.initialized = TRUE, !.ran = box.ran \o box.awaiting, !.awaiting = <<>>]

\* The chatBoxesFetched milestone: the persisted chatboxes S are in the
\* directory, and the router's continuations look for their rooms.
FetchChatBoxes(S) ==
    /\ ~fetched
    /\ fetched' = TRUE
    /\ chatboxes' = RouterReplayAll([i \in {<<j, 1>> : j \in S} |-> RestoredBox(i[1])],
                                    deferred)
    /\ deferred' = <<>>
    /\ UNCHANGED <<tasks, autojoin, obtained, handled, handlers, arrived,
                   bookmarksInitialized>>
    /\ Observe([op |-> "chatBoxesFetched"], {})

\* The initialization handshake of a room, started by its creation: the room
\* asks to join, and whatever waited for muc.initialized goes on.
RoomInitialize(i) ==
    /\ i \in Rooms(chatboxes)
    /\ ~chatboxes[i].initialized
    /\ chatboxes' = [chatboxes EXCEPT ![i] = RunAwaiting(join(@))]
    /\ UNCHANGED <<fetched, tasks, autojoin, obtained, handled, handlers, routing>>
    /\ Observe([op |-> "initialize"],
               IF chatboxes[i].connection_status = DISCONNECTED THEN {i} ELSE {})

\* The server acknowledges the presence into the room.
ServerAck(i) ==
    /\ i \in Rooms(chatboxes)
    /\ chatboxes[i].connection_status = CONNECTING
    /\ chatboxes' = [chatboxes EXCEPT ![i].connection_status = CONNECTED]
    /\ UNCHANGED <<fetched, tasks, autojoin, obtained, handled, handlers, routing>>
    /\ Observe([op |-> "ack"], {})

\* The server refuses the presence.
ServerError(i) ==
    /\ i \in Rooms(chatboxes)
    /\ chatboxes[i].connection_status = CONNECTING
    /\ chatboxes' = [chatboxes EXCEPT ![i].connection_status = DISCONNECTED]
    /\ UNCHANGED <<fetched, tasks, autojoin, obtained, handled, handlers, routing>>
    /\ Observe([op |-> "error"], {})

(* ----------------------------- openChatRoom --------------------------- *)

\* A variant that builds the settings anew instead of extending the caller's.
openChatRoomReplacesSettings(jid, settings) ==
    [NoSettings EXCEPT !.type = CHATROOMS_TYPE, !.id = jid]

\* openChatRoom, lines 71-72: the settings it hands to api.rooms.get.
openChatRoomSettings(jid, settings) ==
    [settings EXCEPT !.type = CHATROOMS_TYPE, !.id = jid]

\* openChatRoom up to its await of api.rooms.get(jid, settings, true).
openChatRoom(jid, settings, caller) ==
    /\ BagCardinality(tasks) < MaxTasks
    /\ tasks' = Suspend(tasks, [Task("openChatRoom", jid, openChatRoomSettings(jid, settings))
                                   EXCEPT !.caller = caller])

\* A caller other than the invitation handler opens a room.
OpenChatRoom(jid) ==
    /\ openChatRoom(jid, NoSettings, "user")
    /\ UNCHANGED <<chatboxes, fetched, autojoin, obtained, handled, handlers, routing>>
    /\ Observe([op |-> "openChatRoom.call", jid |-> jid], {})

\* openChatRoom after the await: the room is there; the caller gets it.
ResumeOpenChatRoom(t) ==
    /\ t.kind = "openChatRoom"
    /\ fetched
    /\ LET r == RoomsGet(chatboxes, t.jid, t.settings, TRUE)
       IN  /\ chatboxes' = r.boxes
           /\ obtained' = [obtained EXCEPT ![t.jid] = @ \cup {r.inst}]
           /\ tasks' = IF t.caller = "invite"
                       THEN Suspend(Finish(tasks, t),
                                    [Task("invite.check", t.jid, NoSettings)
                                        EXCEPT !.inst = r.inst])
                       ELSE Finish(tasks, t)
           /\ Observe([op |-> "openChatRoom", jid |-> t.jid, caller |-> t.caller,
                       password |-> t.settings.password, inst |-> r.inst,
                       raced |-> Opening(Finish(tasks, t), t.jid) # {}], {})
    /\ UNCHANGED <<fetched, autojoin, handled, handlers, routing>>

(* ------------------------- onDirectMUCInvitation ---------------------- *)

\* A variant that takes every invitation as accepted.
InvitationResultAlways(auto_join_on_invite, confirmed) == TRUE

\* Lines 93-112: the decision.
InvitationResult(auto_join_on_invite, confirmed) ==
    IF auto_join_on_invite THEN TRUE ELSE confirmed

\* A variant that rejoins whatever the room's state.
InviteRejoinsAlways(box) == TRUE

\* Line 115: the test that guards the rejoin.
InviteRejoins(box) == box.connection_status = DISCONNECTED

\* Lines 29-32: what the handler of invitations returns, whether or not
\* onDirectMUCInvitation failed: an async function hands its failure to its
\* promise and never throws into its caller.
directInvitationHandlerReturns(failed) == "true"

\* The handler of invitations and onDirectMUCInvitation up to the await of
\* openChatRoom.
onDirectMUCInvitation(room_jid, password, auto_join_on_invite, confirmed) ==
    /\ "invitation" \in handlers
    /\ handlers' = HandlerRan(handlers, "invitation", directInvitationHandlerReturns(FALSE))
    /\ IF InvitationResult(auto_join_on_invite, confirmed) = TRUE
       THEN openChatRoom(room_jid,
                         [NoSettings EXCEPT !.password = password, !.has_password = TRUE],
                         "invite")
       ELSE UNCHANGED tasks
    /\ UNCHANGED <<chatboxes, fetched, autojoin, obtained, handled, routing>>
    /\ Observe([op |-> "invitation", jid |-> room_jid, password |-> password,
                accepted |-> InvitationResult(auto_join_on_invite, confirmed),
                declined |-> ~auto_join_on_invite /\ ~confirmed,
                returned |-> directInvitationHandlerReturns(FALSE)], {})

\* The handler on an invitation it cannot read (no x element, line 88):
\* onDirectMUCInvitation fails at line 90, before it has done anything.
MalformedDirectMUCInvitation ==
    /\ "invitation" \in handlers
    /\ handlers' = HandlerRan(handlers, "invitation", directInvitationHandlerReturns(TRUE))
    /\ UNCHANGED <<chatboxes, fetched, tasks, autojoin, obtained, handled, routing>>
    /\ Observe([op |-> "invitation.failed", returned |-> directInvitationHandlerReturns(TRUE),
                outcome |-> "unhandled rejection"], {})

\* Lines 115-117, once openChatRoom has returned the room.
ResumeDirectMUCInvitation(t) ==
    /\ t.kind = "invite.check"
    /\ LET j == CHOOSE x \in ChatboxesGet(chatboxes, t.jid) : TRUE
       IN  IF InviteRejoins(chatboxes[t.inst])
           THEN /\ chatboxes' = [chatboxes EXCEPT ![j] = rejoin(@)]
                /\ ObserveRooms([op |-> "invitation.check", inst |-> t.inst], {j})
           ELSE /\ UNCHANGED chatboxes
                /\ ObserveRooms([op |-> "invitation.check", inst |-> t.inst], {})
    /\ tasks' = Finish(tasks, t)
    /\ UNCHANGED <<fetched, autojoin, obtained, handled, handlers, routing>>

(* ----------------- disconnecting and rejoining the rooms -------------- *)

\* disconnectChatRooms, lines 43-45.
disconnectChatRooms(boxes) ==
    [i \in DOMAIN boxes |->
        IF boxes[i].type = CHATROOMS_TYPE
        THEN [boxes[i] EXCEPT !.connection_status = DISCONNECTED]
        ELSE boxes[i]]

\* A variant of the unload test that does not ask whether the session can be
\* resumed.
UnloadDisconnectsWebsocket(using_websocket, enable_smacks, smacks_stream_id) ==
    using_websocket

\* A variant of the unload test that forgets the resumption token.
UnloadDisconnectsSmacksOnly(using_websocket, enable_smacks, smacks_stream_id) ==
    using_websocket /\ ~enable_smacks

\* Lines 251-255: the unload listener's test.
UnloadDisconnects(using_websocket, enable_smacks, smacks_stream_id) ==
    using_websocket /\ (~enable_smacks \/ ~smacks_stream_id)

\* The listener onStatusInitialized adds for the unload event.
onUnload(using_websocket, enable_smacks, smacks_stream_id) ==
    /\ chatboxes' = IF UnloadDisconnects(using_websocket, enable_smacks, smacks_stream_id)
                    THEN disconnectChatRooms(chatboxes)
                    ELSE chatboxes
    /\ UNCHANGED <<fetched, tasks, autojoin, obtained, handled, handlers, routing>>
    /\ ObserveRooms([op |-> "unload", websocket |-> using_websocket,
                     resumable |-> enable_smacks /\ smacks_stream_id], {})

\* safeSave(model, attrs): the attributes are set on the model, persisted or not.
safeSave(box, status) == [box EXCEPT !.connection_status = status]

\* A variant that only disconnects the rooms that are connected.
TearDownConnectedOnly(boxes) ==
    [i \in DOMAIN boxes |->
        IF boxes[i].type = CHATROOMS_TYPE /\ boxes[i].connection_status = CONNECTED
        THEN safeSave(boxes[i], DISCONNECTED)
        ELSE boxes[i]]

\* onBeforeTearDown, lines 244-246, on the directory.
TearDown(boxes) ==
    [i \in DOMAIN boxes |->
        IF boxes[i].type = CHATROOMS_TYPE
        THEN safeSave(boxes[i], DISCONNECTED)
        ELSE boxes[i]]

onBeforeTearDown ==
    /\ chatboxes' = TearDown(chatboxes)
    /\ UNCHANGED <<fetched, tasks, autojoin, obtained, handled, handlers, routing>>
    /\ ObserveRooms([op |-> "beforeTearDown"], {})

\* A variant of the test that does not ask the connection.
WindowRejoinsWhenVisible(state, connected) == state = "visible"

\* Line 49: the test of onWindowStateChanged.
WindowRejoins(state, connected) == state = "visible" /\ connected

\* onWindowStateChanged up to its await of api.rooms.get().
onWindowStateChanged(state, connected) ==
    /\ IF WindowRejoins(state, connected)
       THEN /\ BagCardinality(tasks) < MaxTasks
            /\ tasks' = Suspend(tasks, Task("onWindowStateChanged", Unset, NoSettings))
       ELSE UNCHANGED tasks
    /\ UNCHANGED <<chatboxes, fetched, autojoin, obtained, handled, handlers, routing>>
    /\ Observe([op |-> "windowStateChanged", state |-> state, connected |-> connected], {})

\* A variant of line 51 that rejoins without asking whether it is necessary.
WindowRejoinAlways(box) == rejoin(box)

\* Line 51: what the handler does to each room.
WindowRejoin(box) == rejoinIfNecessary(box)

\* Lines 50-51, once api.rooms.get() has returned the rooms.
ResumeWindowStateChanged(t) ==
    /\ t.kind = "onWindowStateChanged"
    /\ fetched
    /\ chatboxes' = [i \in DOMAIN chatboxes |->
                        IF i \in Rooms(chatboxes) THEN WindowRejoin(chatboxes[i])
                        ELSE chatboxes[i]]
    /\ tasks' = Finish(tasks, t)
    /\ UNCHANGED <<fetched, autojoin, obtained, handled, handlers, routing>>
    /\ ObserveRooms([op |-> "windowStateChanged.rejoin"],
                    {i \in Rooms(chatboxes) :
                        WindowRejoin(chatboxes[i]).connection_status = CONNECTING})

(* ----------------------------- autoJoinRooms -------------------------- *)

\* The entries an auto_join_rooms list is made of: a JID string, an object with
\* a jid (and maybe more room settings), an object without one, a number.
AutoJoinEntries ==
    {[kind |-> "string", jid |-> j, settings |-> NoSettings] : j \in RoomJIDs}
    \cup {[kind |-> "object", jid |-> "r1@muc",
           settings |-> [NoSettings EXCEPT !.password = "secret", !.has_password = TRUE]],
          [kind |-> "object", jid |-> "r2@muc", settings |-> NoSettings],
          [kind |-> "object", jid |-> Unset, settings |-> NoSettings],
          [kind |-> "number", jid |-> Unset, settings |-> NoSettings]}

AutoJoinLists == UNION {[1..n -> AutoJoinEntries] : n \in 0..MaxEntries}

\* lodash isObject: true of every object, whatever its keys.
isObject(muc) == muc.kind = "object"

\* Line 164.
EntryIsObject(muc) == isObject(muc)

\* Lines 159-165: whether the entry starts an api.rooms.open.
EntryOpens(boxes, muc) ==
    IF muc.kind = "string"
    THEN ChatboxesWhereJid(boxes, muc.jid) = {}
    ELSE EntryIsObject(muc)

\* Lines 166-168: whether the entry is logged as an error.
EntryLogsError(muc) == muc.kind # "string" /\ ~EntryIsObject(muc)

\* autoJoinRooms up to its await of Promise.all.
autoJoinRooms(list) ==
    /\ autojoin.pc = "idle"
    /\ LET opens == {ix \in DOMAIN list : EntryOpens(chatboxes, list[ix])}
           open(ix) == [Task("rooms.open", list[ix].jid, list[ix].settings)
                           EXCEPT !.caller = "autojoin", !.ix = ix]
       IN  /\ BagCardinality(tasks) + Cardinality(opens) <= MaxTasks
           /\ tasks' = tasks (+) SetToBag({open(ix) : ix \in opens})
           /\ autojoin' = [pc |-> "waiting", entries |-> list,
                           errors |-> {ix \in DOMAIN list : EntryLogsError(list[ix])},
                           opened |-> opens, pending |-> opens, fired |-> 0]
    /\ UNCHANGED <<chatboxes, fetched, obtained, handled, handlers, routing>>
    /\ Observe([op |-> "autoJoinRooms"], {})

\* api.rooms.open(jid, attrs) after its await: the room is there.
ResumeRoomsOpen(t) ==
    /\ t.kind = "rooms.open"
    /\ t.jid # Unset
    /\ fetched
    /\ LET r == RoomsGet(chatboxes, t.jid, t.settings, TRUE)
       IN  /\ chatboxes' = r.boxes
           /\ obtained' = [obtained EXCEPT ![t.jid] = @ \cup {r.inst}]
           /\ Observe([op |-> "rooms.open", jid |-> t.jid, caller |-> t.caller,
                       inst |-> r.inst,
                       raced |-> Opening(Finish(tasks, t), t.jid) # {}], {})
    /\ tasks' = Finish(tasks, t)
    /\ autojoin' = [autojoin EXCEPT !.pending = @ \ {t.ix}]
    /\ UNCHANGED <<fetched, handled, handlers, routing>>

\* api.rooms.open(undefined, attrs): nothing says what an open without a JID
\* does, so it either fails, and Promise.all with it, or resolves to no room.
RoomsOpenWithoutJid(t, rejects) ==
    /\ t.kind = "rooms.open"
    /\ t.jid = Unset
    /\ tasks' = Finish(tasks, t)
    /\ autojoin' = [autojoin EXCEPT !.pending = @ \ {t.ix},
                                    !.pc = IF rejects /\ @ = "waiting" THEN "rejected" ELSE @]
    /\ UNCHANGED <<chatboxes, fetched, obtained, handled, handlers, routing>>
    /\ Observe([op |-> "rooms.open", jid |-> t.jid, caller |-> t.caller,
                inst |-> NoRoom, raced |-> FALSE], {})

\* Line 179, once every open has resolved.
ResumeAutoJoinRooms ==
    /\ autojoin.pc = "waiting"
    /\ autojoin.pending = {}
    /\ autojoin' = [autojoin EXCEPT !.pc = "done", !.fired = @ + 1]
    /\ UNCHANGED <<chatboxes, fetched, tasks, obtained, handled, handlers, routing>>
    /\ Observe([op |-> "roomsAutoJoined"], {})

(* ------------------------------ routeToRoom --------------------------- *)

\* A URL fragment that is not the JID of a groupchat.
InvalidJID == "not a jid"

\* u.isValidMUCJID.
isValidMUCJID(jid) == jid \in RoomJIDs

\* routeToRoom up to its await of roomsAutoJoined.
routeToRoom(jid) ==
    /\ IF ~isValidMUCJID(jid)
       THEN UNCHANGED tasks
       ELSE /\ BagCardinality(tasks) < MaxTasks
            /\ tasks' = Suspend(tasks, [Task("routeToRoom.autojoined", jid, NoSettings)
                                           EXCEPT !.caller = "route"])
    /\ UNCHANGED <<chatboxes, fetched, autojoin, obtained, handled, handlers, routing>>
    /\ Observe([op |-> "routeToRoom", jid |-> jid, warned |-> ~isValidMUCJID(jid)], {})

\* A variant of line 60 that never waits for the bookmarks.
RouteAwaitsBookmarksNever(allow_bookmarks) == FALSE

\* Line 60.
RouteAwaitsBookmarks(allow_bookmarks) == allow_bookmarks

\* Line 63: api.rooms.open(jid) is called, and not waited for.
RouteOpens(t) == [Task("rooms.open", t.jid, NoSettings) EXCEPT !.caller = "route"]

\* Lines 60-63, once roomsAutoJoined has fired.
ResumeRouteAutoJoined(t, allow_bookmarks) ==
    /\ t.kind = "routeToRoom.autojoined"
    /\ autojoin.fired > 0
    /\ tasks' = Suspend(Finish(tasks, t),
                        IF RouteAwaitsBookmarks(allow_bookmarks)
                        THEN [t EXCEPT !.kind = "routeToRoom.bookmarks"]
                        ELSE RouteOpens(t))
    /\ UNCHANGED <<chatboxes, fetched, autojoin, obtained, handled, handlers, routing>>
    /\ Observe([op |-> "routeToRoom.autojoined", jid |-> t.jid,
                allow_bookmarks |-> allow_bookmarks], {})

\* Line 63, once bookmarksInitialized has fired.
ResumeRouteBookmarks(t) ==
    /\ t.kind = "routeToRoom.bookmarks"
    /\ bookmarksInitialized
    /\ tasks' = Suspend(Finish(tasks, t), RouteOpens(t))
    /\ UNCHANGED <<chatboxes, fetched, autojoin, obtained, handled, handlers, routing>>
    /\ Observe([op |-> "routeToRoom.bookmarks", jid |-> t.jid], {})

\* The bookmarksInitialized milestone.
BookmarksInitialized ==
    /\ ~bookmarksInitialized
    /\ bookmarksInitialized' = TRUE
    /\ UNCHANGED <<chatboxes, fetched, tasks, autojoin, obtained, handled, handlers,
                   deferred, arrived>>
    /\ Observe([op |-> "bookmarksInitialized"], {})

(* ----------------- the router of groupchat stanzas -------------------- *)

\* A variant of line 268 that defers every stanza.
RouterDefersAlways(boxes, muc_jid) == TRUE

\* Line 268: the router defers a stanza when no chatbox has its bare from-JID.
RouterDefers(boxes, muc_jid) == ChatboxesGet(boxes, muc_jid) = {}

\* Line 277.
routerReturns == "true"

\* The handler of onBeforeResourceBinding on a groupchat stanza from muc_jid,
\* the next stanza to arrive. A continuation registered before chatBoxesFetched
\* has fired waits for it; one registered after runs before any other event is
\* handled.
RouterHandler(muc_jid) ==
    /\ "router" \in handlers
    /\ Len(arrived) < MaxStanzas
    /\ LET stanza == [jid |-> muc_jid, id |-> Len(arrived) + 1]
           defers == RouterDefers(chatboxes, muc_jid)
       IN  /\ arrived' = Append(arrived,
                             [jid |-> muc_jid,
                              absent |-> \A i \in Rooms(chatboxes) : chatboxes[i].jid # muc_jid,
                              early |-> ~fetched])
           /\ deferred' = IF defers /\ ~fetched THEN Append(deferred, stanza) ELSE deferred
           /\ chatboxes' = IF defers /\ fetched THEN RouterReplay(chatboxes, stanza)
                           ELSE chatboxes
    /\ handlers' = HandlerRan(handlers, "router", routerReturns)
    /\ UNCHANGED <<fetched, tasks, autojoin, obtained, handled, bookmarksInitialized>>
    /\ Observe([op |-> "router", returned |-> routerReturns], {})

(* ----------------------- activity notifications ----------------------- *)

\* _converse.bare_jid.
OwnJID == "me@im"

\* The notification stanzas of the model and the number of activity records in
\* the payload of each.
MsgIds == {"m0", "m1", "m2"}
Activities == [m \in MsgIds |-> CASE m = "m0" -> 0 [] m = "m1" -> 1 [] OTHER -> 2]

\* getMEPActivities(stanza, room): the attributes of one Message per activity
\* record, in document order; each carries the id of its stanza.
getMEPActivities(msgid) ==
    [a \in 1..Activities[msgid] |-> [msgid |-> msgid, activity |-> a]]

\* room.createMessage(attrs): the Message joins the end of the room's log.
createMessage(box, attrs) == [box EXCEPT !.messages = Append(@, attrs)]

\* u.isSameBareJID.
isSameBareJID(a, b) == a = b

\* A variant without the test of lines 199-202.
NeverHandledBefore(box, msgid) == FALSE

\* Line 199: room.messages.findWhere({ msgid }).
HandledBefore(box, msgid) == \E m \in Range(box.messages) : m.msgid = msgid

\* A variant that stops after the first activity record.
CreateFirstMessage(box, attrs) ==
    IF attrs = <<>> THEN box ELSE createMessage(box, Head(attrs))

\* Lines 203-206 on the room: one Message per activity, in order.
RECURSIVE CreateMessages(_, _)
CreateMessages(box, attrs) ==
    IF attrs = <<>> THEN box
    ELSE CreateMessages(createMessage(box, Head(attrs)), Tail(attrs))

\* The ways the payload of a notification can fail: not at all, in
\* getMEPActivities, or in createMessage for the last activity record.
Failures == {"none", "decode", "create"}

\* Line 213: handleMEPNotification is called without await and without a
\* rejection handler, so an error it raises after its await rejects a promise
\* nobody holds; the try block of checkIfMEP is long left.
RejectionOutcome == "unhandled rejection"

\* A variant without the test of line 190.
handleMEPNotificationAnySender(from, msgid) ==
    /\ BagCardinality(tasks) < MaxTasks
    /\ tasks' = Suspend(tasks, [Task("handleMEPNotification", from, NoSettings)
                                   EXCEPT !.msgid = msgid])

\* handleMEPNotification up to its await of api.rooms.get(from).
handleMEPNotification(from, msgid) ==
    IF isSameBareJID(from, OwnJID)
    THEN UNCHANGED tasks
    ELSE /\ BagCardinality(tasks) < MaxTasks
         /\ tasks' = Suspend(tasks, [Task("handleMEPNotification", from, NoSettings)
                                        EXCEPT !.msgid = msgid])

\* A variant of checkIfMEP without its try block.
checkIfMEPReturnsUncaught(threw) == IF threw THEN "throws" ELSE "true"

\* Lines 211-218: what checkIfMEP returns, whether or not its try block threw.
checkIfMEPReturns(threw) == "true"

\* checkIfMEP, the handler of headline and of groupchat messages; threw: the
\* look for the event element (line 212) raised an error.
checkIfMEP(from, msgid, type, has_event, threw) ==
    /\ type \in handlers
    /\ handlers' = HandlerRan(handlers, type, checkIfMEPReturns(threw))
    /\ IF has_event /\ ~threw THEN handleMEPNotification(from, msgid) ELSE UNCHANGED tasks
    /\ UNCHANGED <<chatboxes, fetched, autojoin, obtained, handled, routing>>
    /\ Observe([op |-> "checkIfMEP", returned |-> checkIfMEPReturns(threw),
                threw |-> threw, self |-> has_event /\ ~threw /\ from = OwnJID], {})

\* Lines 194-206, once api.rooms.get(from) has returned.
ResumeMEPNotification(t, failure) ==
    /\ t.kind = "handleMEPNotification"
    /\ fetched
    /\ LET room == RoomsGet(chatboxes, t.jid, NoSettings, FALSE).inst
           attrs == getMEPActivities(t.msgid)
           done == IF failure = "create" THEN SubSeq(attrs, 1, Len(attrs) - 1) ELSE attrs
           again == \E h \in handled : h[1] = t.jid /\ h[2] = t.msgid
           raced == \E u \in BagToSet(Finish(tasks, t)) :
                        u.kind = t.kind /\ u.jid = t.jid /\ u.msgid = t.msgid
           op == [op |-> "handleMEPNotification", inst |-> room, jid |-> t.jid,
                  msgid |-> t.msgid, again |-> again, failure |-> failure]
       IN  IF room = NoRoom
           THEN /\ failure = "none"
                /\ UNCHANGED <<chatboxes, handled>>
                /\ Observe(op @@ [events |-> <<>>, created |-> 0, outcome |-> "warned"], {})
           ELSE /\ handled' = IF again THEN handled
                               ELSE handled \cup {<<t.jid, t.msgid, raced>>}
                /\ IF HandledBefore(chatboxes[room], t.msgid)
                   THEN /\ failure = "none"
                        /\ UNCHANGED chatboxes
                        /\ Observe(op @@ [events |-> <<>>, created |-> 0,
                                          outcome |-> "duplicate"], {})
                   ELSE IF failure = "decode"
                   THEN /\ UNCHANGED chatboxes
                        /\ Observe(op @@ [events |-> <<>>, created |-> 0,
                                          outcome |-> RejectionOutcome], {})
                   ELSE /\ failure = "create" => attrs # <<>>
                        /\ chatboxes' = [chatboxes EXCEPT ![room] = CreateMessages(@, done)]
                        /\ Observe(op @@ [events |-> done,
                                          created |-> Len(chatboxes'[room].messages)
                                                      - Len(chatboxes[room].messages),
                                          outcome |-> IF failure = "none" THEN "done"
                                                      ELSE RejectionOutcome], {})
    /\ tasks' = Finish(tasks, t)
    /\ UNCHANGED <<fetched, autojoin, obtained, handlers, routing>>

(* --------------------------- getAssignableRoles ----------------------- *)

RoleSet == Range(ROLES)
OccupantRoles == RoleSet \cup {"none"}

\* The values of the modtools_disable_assign setting: an array of roles, true,
\* false, or nothing.
DisableSettings ==
    {[kind |-> "array", items |-> a] :
        a \in UNION {[1..n -> RoleSet] : n \in 0..MaxDisabled}}
    \cup {[kind |-> k, items |-> <<>>] : k \in {"true", "false", "undefined"}}

IsArray(v) == v.kind = "array"
Truthy(v) == v.kind \in {"array", "true"}

\* A variant whose filter keeps the disabled roles and drops the others.
getAssignableRolesInverted(role, setting) ==
    LET disabled == IF ~IsArray(setting)
                    THEN (IF Truthy(setting) THEN ROLES ELSE <<>>)
                    ELSE setting.items
    IN  IF role = "moderator"
        THEN SelectSeq(ROLES, LAMBDA r : r \in Range(disabled))
        ELSE <<>>

\* getAssignableRoles, lines 15-25.
getAssignableRoles(role, setting) ==
    LET disabled == IF ~IsArray(setting)
                    THEN (IF Truthy(setting) THEN ROLES ELSE <<>>)
                    ELSE setting.items
    IN  IF role = "moderator"
        THEN SelectSeq(ROLES, LAMBDA r : r \notin Range(disabled))
        ELSE <<>>

\* A call of getAssignableRoles for an occupant with that role.
GetAssignableRoles(role, setting) ==
    /\ UNCHANGED <<chatboxes, fetched, tasks, autojoin, obtained, handled, handlers, routing>>
    /\ Observe([op |-> "getAssignableRoles", role |-> role, setting |-> setting,
                result |-> getAssignableRoles(role, setting)], {})

(* --------------------------- specifications --------------------------- *)

\* The session state machine under every operation that touches it.
Next ==
    \/ \E S \in SUBSET (RoomJIDs \cup {ChatJID}) : FetchChatBoxes(S)
    \/ \E i \in DOMAIN chatboxes : RoomInitialize(i)
    \/ \E i \in DOMAIN chatboxes : ServerAck(i)
    \/ \E i \in DOMAIN chatboxes : ServerError(i)
    \/ \E jid \in RoomJIDs : OpenChatRoom(jid)
    \/ \E t \in BagToSet(tasks) : ResumeOpenChatRoom(t)
    \/ \E jid \in RoomJIDs, auto \in BOOLEAN, ok \in BOOLEAN :
           onDirectMUCInvitation(jid, Unset, auto, ok)
    \/ \E t \in BagToSet(tasks) : ResumeDirectMUCInvitation(t)
    \/ \E ws \in BOOLEAN, smacks \in BOOLEAN, sid \in BOOLEAN : onUnload(ws, smacks, sid)
    \/ onBeforeTearDown
    \/ \E state \in {"visible", "hidden"}, c \in BOOLEAN : onWindowStateChanged(state, c)
    \/ \E t \in BagToSet(tasks) : ResumeWindowStateChanged(t)

Spec == Init /\ [][Next]_vars

\* The Room Directory under every request that opens or creates a room.
DirNext ==
    \/ \E S \in SUBSET RoomJIDs : FetchChatBoxes(S)
    \/ \E jid \in RoomJIDs : OpenChatRoom(jid)
    \/ \E t \in BagToSet(tasks) : ResumeOpenChatRoom(t)
    \/ \E jid \in RoomJIDs, auto \in BOOLEAN, ok \in BOOLEAN :
           onDirectMUCInvitation(jid, Unset, auto, ok)
    \/ \E t \in BagToSet(tasks) : ResumeDirectMUCInvitation(t)
    \/ \E list \in AutoJoinLists : autoJoinRooms(list)
    \/ \E t \in BagToSet(tasks) : ResumeRoomsOpen(t)
    \/ \E t \in BagToSet(tasks), rejects \in BOOLEAN : RoomsOpenWithoutJid(t, rejects)
    \/ ResumeAutoJoinRooms

DirSpec == Init /\ [][DirNext]_vars

\* Direct invitations to rooms in every session state, with and without a
\* password.
InviteNext ==
    \/ \E S \in SUBSET RoomJIDs : FetchChatBoxes(S)
    \/ \E i \in DOMAIN chatboxes : RoomInitialize(i)
    \/ \E i \in DOMAIN chatboxes : ServerAck(i)
    \/ onBeforeTearDown
    \/ \E t \in BagToSet(tasks) : ResumeOpenChatRoom(t)
    \/ \E jid \in RoomJIDs, pw \in Passwords, auto \in BOOLEAN, ok \in BOOLEAN :
           onDirectMUCInvitation(jid, pw, auto, ok)
    \/ \E t \in BagToSet(tasks) : ResumeDirectMUCInvitation(t)

InviteSpec == Init /\ [][InviteNext]_vars

\* The notification handlers, for rooms that are in the directory and rooms
\* that are not.
MEPNext ==
    \/ \E S \in SUBSET RoomJIDs : FetchChatBoxes(S)
    \/ \E from \in RoomJIDs \cup {OwnJID}, msgid \in MsgIds,
          type \in {"mep.headline", "mep.groupchat"}, has_event \in BOOLEAN :
           checkIfMEP(from, msgid, type, has_event, FALSE)
    \/ \E t \in BagToSet(tasks) : ResumeMEPNotification(t, "none")

MEPSpec == Init /\ [][MEPNext]_vars

\* The same handlers on payloads that may fail to decode, for one room and for
\* stanzas with activity records.
MEPFailNext ==
    \/ \E S \in SUBSET {"r1@muc"} : FetchChatBoxes(S)
    \/ \E msgid \in {"m1", "m2"}, type \in {"mep.headline", "mep.groupchat"} :
           checkIfMEP("r1@muc", msgid, type, TRUE, FALSE)
    \/ \E t \in BagToSet(tasks), failure \in Failures : ResumeMEPNotification(t, failure)

MEPFailSpec == Init /\ [][MEPFailNext]_vars

\* The four stanza handlers on stanzas they can process and on stanzas they
\* cannot, for one room.
HandlerNext ==
    \/ \E S \in SUBSET {"r1@muc"} : FetchChatBoxes(S)
    \/ \E i \in DOMAIN chatboxes : RoomInitialize(i)
    \/ \E auto \in BOOLEAN, ok \in BOOLEAN : onDirectMUCInvitation("r1@muc", Unset, auto, ok)
    \/ MalformedDirectMUCInvitation
    \/ \E t \in BagToSet(tasks) : ResumeOpenChatRoom(t)
    \/ \E t \in BagToSet(tasks) : ResumeDirectMUCInvitation(t)
    \/ \E from \in {"r1@muc", OwnJID}, type \in {"mep.headline", "mep.groupchat"},
          has_event \in BOOLEAN, threw \in BOOLEAN :
           checkIfMEP(from, "m1", type, has_event, threw)
    \/ \E t \in BagToSet(tasks), failure \in Failures : ResumeMEPNotification(t, failure)
    \/ RouterHandler("r1@muc")

HandlerSpec == Init /\ [][HandlerNext]_vars

\* The router of groupchat stanzas, for rooms that are restored from storage,
\* rooms that are opened later and rooms that never are.
RouterNext ==
    \/ \E S \in SUBSET RoomJIDs : FetchChatBoxes(S)
    \/ \E i \in DOMAIN chatboxes : RoomInitialize(i)
    \/ \E jid \in RoomJIDs : OpenChatRoom(jid)
    \/ \E t \in BagToSet(tasks) : ResumeOpenChatRoom(t)
    \/ \E jid \in RoomJIDs : RouterHandler(jid)

RouterSpec == Init /\ [][RouterNext]_vars

\* routeToRoom against the milestones it waits for.
RouteNext ==
    \/ \E S \in SUBSET RoomJIDs : FetchChatBoxes(S)
    \/ \E list \in AutoJoinLists : autoJoinRooms(list)
    \/ \E t \in BagToSet(tasks) : ResumeRoomsOpen(t)
    \/ \E t \in BagToSet(tasks), rejects \in BOOLEAN : RoomsOpenWithoutJid(t, rejects)
    \/ ResumeAutoJoinRooms
    \/ BookmarksInitialized
    \/ \E jid \in RoomJIDs \cup {InvalidJID} : routeToRoom(jid)
    \/ \E t \in BagToSet(tasks), allow_bookmarks \in BOOLEAN :
           ResumeRouteAutoJoined(t, allow_bookmarks)
    \/ \E t \in BagToSet(tasks) : ResumeRouteBookmarks(t)

RouteSpec == Init /\ [][RouteNext]_vars

\* getAssignableRoles on every occupant role and every value of the setting.
RolesNext ==
    \E role \in OccupantRoles, setting \in DisableSettings : GetAssignableRoles(role, setting)

RolesSpec == Init /\ [][RolesNext]_vars

(* ------------------------------ claims -------------------------------- *)

\* C1: the directory holds at most one Room per bare JID, and every caller of
\* get-or-create for a JID, however the requests of openChatRoom, of an accepted
\* invitation and of auto-join interleave, is handed the same instance, which
\* is the one in the directory.
C1_OneRoomPerJID ==
    /\ \A i, j \in DOMAIN chatboxes : chatboxes[i].jid = chatboxes[j].jid => i = j
    /\ \A jid \in RoomJIDs :
          /\ Cardinality(obtained[jid]) <= 1
          /\ obtained[jid] \subseteq ChatboxesWhereJid(chatboxes, jid)

\* A request for a JID has just returned a room while a request of another
\* caller for the same JID is still suspended.
C1_Witness ==
    /\ last.op \in {"openChatRoom", "rooms.open"}
    /\ last.raced
    /\ last.inst # NoRoom
    /\ \E t \in Opening(tasks, last.jid) : t.caller # last.caller

\* C2: a notification stanza (same id, same room) that has already reached its
\* room creates no Message and emits no 'message' event when it is delivered
\* again, whichever of the two handler runs resumes first; the log never holds
\* more Messages of a stanza than one delivery of it creates.
C2_IdempotentIngestion ==
    /\ last.op = "handleMEPNotification" /\ last.again
          => last.events = <<>> /\ last.created = 0
    /\ \A i \in DOMAIN chatboxes : \A m \in MsgIds :
          Cardinality({k \in DOMAIN chatboxes[i].messages :
                          chatboxes[i].messages[k].msgid = m}) <= Activities[m]

\* The second of two deliveries that were suspended together has been handled,
\* for a stanza with activity records.
C2_Witness ==
    /\ last.op = "handleMEPNotification"
    /\ last.again
    /\ last.inst # NoRoom
    /\ Activities[last.msgid] > 0
    /\ <<chatboxes[last.inst].jid, last.msgid, TRUE>> \in handled

\* C3: no room's message log holds two Messages with the same message id.
C3_UniqueMessageIds ==
    \A i \in DOMAIN chatboxes :
        \A a, b \in DOMAIN chatboxes[i].messages :
            chatboxes[i].messages[a].msgid = chatboxes[i].messages[b].msgid => a = b

AllowedTransition(a, b) ==
    \/ a = b
    \/ a = DISCONNECTED /\ b = CONNECTING
    \/ a = CONNECTING /\ b = CONNECTED
    \/ b = DISCONNECTED

\* C4: a room enters the directory disconnected, and every step changes its
\* connection_status only along disconnected->connecting, connecting->connected
\* or any->disconnected.
C4_SessionTransitions ==
    [][\A i \in Rooms(chatboxes') :
          IF i \in DOMAIN chatboxes
          THEN AllowedTransition(chatboxes[i].connection_status,
                                 chatboxes'[i].connection_status)
          ELSE chatboxes'[i].connection_status = DISCONNECTED]_vars

\* A room has just been acknowledged as connected while another, initialized
\* before, is back in disconnected.
C4_Witness ==
    /\ last.op = "ack"
    /\ \E i, j \in Rooms(chatboxes) :
          /\ chatboxes[i].connection_status = CONNECTED
          /\ chatboxes[j].initialized
          /\ chatboxes[j].connection_status = DISCONNECTED

UnloadLeavesRoomsDisconnected ==
    /\ DOMAIN chatboxes = DOMAIN before
    /\ \A i \in DOMAIN chatboxes :
          IF chatboxes[i].type = CHATROOMS_TYPE
          THEN chatboxes[i].connection_status = DISCONNECTED
          ELSE chatboxes[i].connection_status = before[i]

C7_RejoinIfNecessary ==
    last.op = "windowStateChanged.rejoin" =>
        /\ \A i \in Rooms(chatboxes) :
              before[i] = CONNECTED
                  => i \notin sent /\ chatboxes[i].connection_status = CONNECTED
        /\ \A i \in sent :
              before[i] # CONNECTED /\ chatboxes[i].connection_status = CONNECTING

\* The handler found one room connected and one disconnected.
C7_Witness ==
    /\ last.op = "windowStateChanged.rejoin"
    /\ \E i \in Rooms(chatboxes) : before[i] = CONNECTED
    /\ \E i \in sent : before[i] = DISCONNECTED

IsRoomEntry(muc) == muc.kind = "string" \/ (muc.kind = "object" /\ muc.jid # Unset)

\* C8: once autoJoinRooms has walked its list, every entry that is neither a
\* JID string nor an object with a jid has been logged as an error and has
\* started no open, every other entry has started an open or found its room
\* there; the run does not fail, and roomsAutoJoined fires once, when no open
\* the run started is still unsettled.
C8_AutoJoin ==
    autojoin.pc # "idle" =>
        /\ \A ix \in DOMAIN autojoin.entries :
              IF IsRoomEntry(autojoin.entries[ix])
              THEN ix \notin autojoin.errors
              ELSE ix \in autojoin.errors /\ ix \notin autojoin.opened
        /\ autojoin.pc # "rejected"
        /\ autojoin.fired = (IF autojoin.pc = "done" THEN 1 ELSE 0)
        /\ autojoin.pc = "done" => autojoin.pending = {}

\* C9: getAssignableRoles returns the empty list unless the occupant is a
\* moderator, and otherwise the roles moderator, participant, visitor, in that
\* order, without those of the disable-list: every role for true, none for
\* false or an unset value.
C9_AssignableRoles ==
    last.op = "getAssignableRoles" =>
        LET off == CASE last.setting.kind = "array" -> Range(last.setting.items)
                     [] last.setting.kind = "true" -> RoleSet
                     [] OTHER -> {}
            pos(r) == CHOOSE k \in DOMAIN ROLES : ROLES[k] = r
        IN  IF last.role # "moderator"
            THEN last.result = <<>>
            ELSE /\ Range(last.result) = RoleSet \ off
                 /\ \A a, b \in DOMAIN last.result :
                       a < b => pos(last.result[a]) < pos(last.result[b])

\* A moderator with the disable-list ['moderator'] may assign participant and
\* visitor.
C9_Witness ==
    /\ last.op = "getAssignableRoles"
    /\ last.role = "moderator"
    /\ last.setting = [kind |-> "array", items |-> <<"moderator">>]
    /\ last.result = <<"participant", "visitor">>

\* C10: an accepted invitation asks for its room with type groupchat and the
\* password of the invitation; the room it gets is in the directory with that
\* type and that password; and rejoin is then called on that room if and only
\* if its connection_status is disconnected at that point, a connecting or
\* connected room being left as it is.
C10_AcceptedInvitation ==
    /\ last.op = "invitation" /\ last.accepted
          => \E t \in BagToSet(tasks) :
                /\ t.kind = "openChatRoom" /\ t.caller = "invite" /\ t.jid = last.jid
                /\ t.settings.type = CHATROOMS_TYPE
                /\ t.settings.has_password /\ t.settings.password = last.password
    /\ last.op = "openChatRoom" /\ last.caller = "invite"
          => /\ last.inst \in DOMAIN chatboxes
             /\ chatboxes[last.inst].jid = last.jid
             /\ chatboxes[last.inst].type = CHATROOMS_TYPE
             /\ chatboxes[last.inst].password = last.password
    /\ last.op = "invitation.check"
          => /\ sent = (IF before[last.inst] = DISCONNECTED THEN {last.inst} ELSE {})
             /\ before[last.inst] # DISCONNECTED
                   => chatboxes[last.inst].connection_status = before[last.inst]

\* An invitation with a password was accepted for a room that had been
\* initialized and had fallen back to disconnected, and the room was rejoined.
C10_Witness ==
    /\ last.op = "invitation.check"
    /\ sent = {last.inst}
    /\ chatboxes[last.inst].initialized
    /\ chatboxes[last.inst].password = "secret"
    /\ chatboxes[last.inst].connection_status = CONNECTING

\* C11: a declined invitation (auto-accept off, the prompt not answered with
\* true) changes nothing: the directory and every room in it are as they were,
\* no request for a room is started and no join presence is sent.
C11_DeclinedInvitation ==
    [][last'.op = "invitation" /\ last'.declined
          => /\ chatboxes' = chatboxes
             /\ tasks' = tasks
             /\ obtained' = obtained
             /\ sent' = {}]_vars

\* An invitation was declined for a room that is in the directory, initialized
\* and disconnected: one that accepting would have rejoined.
C11_Witness ==
    /\ last.op = "invitation" /\ last.declined
    /\ \E i \in Rooms(chatboxes) :
          /\ chatboxes[i].jid = last.jid
          /\ chatboxes[i].initialized
          /\ chatboxes[i].connection_status = DISCONNECTED

\* C12: every handler of this module is registered at all times, and whatever
\* a handler returned for the stanza it has just been given, a stanza it could
\* not process included, is true.
C12_HandlersStay ==
    /\ handlers = Handlers
    /\ last.op \in {"invitation", "invitation.failed", "checkIfMEP", "router"}
          => last.returned = "true"

\* checkIfMEP has been given a stanza on which its look for the event element
\* failed, after the router has seen a stanza and with an initialized room.
C12_Witness ==
    /\ last.op = "checkIfMEP" /\ last.threw
    /\ arrived # <<>>
    /\ \E i \in Rooms(chatboxes) : chatboxes[i].initialized

\* The stanzas the router has passed on for a room: those its message handler
\* has run and those that wait for the room's initialization.
Replaying(box) == box.ran \o box.awaiting

\* C13: the router replays a stanza through a room's message handler only if
\* no Room existed for the stanza's bare from-JID when it arrived, at most once,
\* and only once chatBoxesFetched has fired and the room is initialized; a
\* stanza whose room is absent when the milestone fires is never replayed,
\* even if the room is created later.
C13_RouterReplay ==
    /\ \A i \in DOMAIN chatboxes :
          /\ \A k \in Range(Replaying(chatboxes[i])) :
                /\ k \in DOMAIN arrived
                /\ arrived[k].jid = chatboxes[i].jid
                /\ arrived[k].absent
          /\ \A a, b \in DOMAIN Replaying(chatboxes[i]) :
                Replaying(chatboxes[i])[a] = Replaying(chatboxes[i])[b] => a = b
          /\ chatboxes[i].ran # <<>> => fetched /\ chatboxes[i].initialized
          /\ ~chatboxes[i].restored => Replaying(chatboxes[i]) = <<>>
    /\ \A i, j \in DOMAIN chatboxes :
          i # j => Range(Replaying(chatboxes[i])) \cap Range(Replaying(chatboxes[j])) = {}

\* One stanza has been replayed, one was dropped at the milestone for a
\* room that was opened later, and one came for a room that was there.
C13_Witness ==
    /\ \E i \in Rooms(chatboxes) : chatboxes[i].ran # <<>>
    /\ \E i \in Rooms(chatboxes), k \in DOMAIN arrived :
          /\ ~chatboxes[i].restored
          /\ arrived[k].jid = chatboxes[i].jid /\ arrived[k].early
    /\ \E k \in DOMAIN arrived : ~arrived[k].absent

\* C18: routeToRoom asks for its room to be opened only once roomsAutoJoined
\* has fired and, with allow_bookmarks on, once bookmarksInitialized has fired
\* too; for a JID that is no valid MUC JID it logs a warning, waits for
\* nothing and opens nothing, and no room is ever there for such a JID.
C18_RouteToRoom ==
    [][LET opens(bag) == {t \in BagToSet(bag) : t.kind = "rooms.open" /\ t.caller = "route"}
           count(bag) == BagCardinality([t \in opens(bag) |-> bag[t]])
       IN  /\ count(tasks') > count(tasks)
                => /\ autojoin.fired > 0
                   /\ last'.op \in {"routeToRoom.autojoined", "routeToRoom.bookmarks"}
                   /\ last'.jid \in RoomJIDs
                   /\ last'.op = "routeToRoom.autojoined" => ~last'.allow_bookmarks
                   /\ last'.op = "routeToRoom.bookmarks" => bookmarksInitialized
           /\ last'.op = "routeToRoom" /\ last'.jid \notin RoomJIDs
                => last'.warned /\ tasks' = tasks /\ chatboxes' = chatboxes
           /\ \A i \in DOMAIN chatboxes' : chatboxes'[i].jid \in RoomJIDs]_vars

\* A room asked for by routeToRoom has been opened, after both milestones.
C18_Witness ==
    /\ last.op = "rooms.open" /\ last.caller = "route"
    /\ last.inst \in DOMAIN chatboxes
    /\ ~chatboxes[last.inst].restored
    /\ bookmarksInitialized

\* The stanzas deferred for a JID before chatBoxesFetched fired, in the order
\* of their arrival.
DeferredEarly(jid) ==
    LET ids == [k \in DOMAIN arrived |-> k]
    IN  SelectSeq(ids, LAMBDA k : arrived[k].jid = jid /\ arrived[k].early /\ arrived[k].absent)

\* C19: the stanzas deferred for a room before chatBoxesFetched fired are run
\* through the message handler of the room, once it is there at the milestone
\* and initialized, in the order of their arrival, each once and none missing;
\* until then they wait, in that order.
C19_ReplayOrder ==
    \A i \in Rooms(chatboxes) :
        chatboxes[i].restored =>
            /\ Replaying(chatboxes[i]) = DeferredEarly(chatboxes[i].jid)
            /\ chatboxes[i].initialized => chatboxes[i].awaiting = <<>>

\* Two stanzas for one room, with a stanza for another room between them,
\* have been replayed.
C19_Witness ==
    \E i \in Rooms(chatboxes) :
        /\ chatboxes[i].initialized
        /\ chatboxes[i].ran = <<1, 3>>
        /\ arrived[2].jid # chatboxes[i].jid

\* C14: a failure of the activity decoder or of message creation while a
\* notification is processed is caught and logged, is not left as an unhandled
\* failure, and leaves the room's log without any Message of that stanza.
C14_DecodeFailureCaught ==
    last.op = "handleMEPNotification" /\ last.failure # "none"
        => /\ last.outcome = "logged"
           /\ \A m \in Range(chatboxes[last.inst].messages) : m.msgid # last.msgid

\* C15: a notification that is self-authored starts nothing and changes no
\* room; no run of handleMEPNotification is ever under way for the user's own
\* JID; and a notification whose room is not in the directory creates no
\* Message, emits no 'message' event and leaves the directory as it was.
C15_DroppedNotification ==
    [][/\ last'.op = "checkIfMEP" /\ last'.self
             => tasks' = tasks /\ chatboxes' = chatboxes
       /\ \A t \in BagToSet(tasks') : t.kind = "handleMEPNotification" => t.jid # OwnJID
       /\ (/\ last'.op = "handleMEPNotification"
           /\ \A i \in Rooms(chatboxes) : chatboxes[i].jid # last'.jid)
             => /\ chatboxes' = chatboxes
                /\ last'.events = <<>>
                /\ last'.created = 0]_vars

\* A notification for a room that is not in the directory was dropped while
\* the directory holds another room with a Message in its log.
C15_Witness ==
    /\ last.op = "handleMEPNotification"
    /\ last.inst = NoRoom
    /\ Activities[last.msgid] > 0
    /\ \E i \in Rooms(chatboxes) : chatboxes[i].messages # <<>>

\* C16: a notification whose room is in the directory and whose id is not in
\* that room's log appends to the log one Message per activity record of its
\* payload, in the order of the records, and emits one 'message' event per
\* record in the same order, for that room; with no record it does neither.
C16_MessagePerActivity ==
    [][(/\ last'.op = "handleMEPNotification"
        /\ last'.inst # NoRoom
        /\ last'.failure = "none"
        /\ \A m \in Range(chatboxes[last'.inst].messages) : m.msgid # last'.msgid)
          => LET records == [a \in 1..Activities[last'.msgid] |->
                               [msgid |-> last'.msgid, activity |-> a]]
             IN  /\ chatboxes[last'.inst].jid = last'.jid
                 /\ chatboxes'[last'.inst].messages
                        = chatboxes[last'.inst].messages \o records
                 /\ last'.events = records
                 /\ last'.created = Len(records)
                 /\ \A i \in DOMAIN chatboxes \ {last'.inst} :
                       chatboxes'[i] = chatboxes[i]]_vars

\* A stanza with two activity records has been added to a log that held the
\* Message of another stanza.
C16_Witness ==
    /\ last.op = "handleMEPNotification"
    /\ last.inst # NoRoom
    /\ Activities[last.msgid] = 2
    /\ last.created = 2
    /\ Len(chatboxes[last.inst].messages) = 3

\* C17: a window-state change starts the rejoin of the rooms if and only if the
\* state is 'visible' and the connection is connected at that moment, and
\* otherwise changes nothing; the rejoin it started asks every room, once, to
\* rejoin if necessary; and no other step starts such a rejoin.
C17_WindowStateRejoin ==
    [][LET rejoins(bag) == {t \in BagToSet(bag) : t.kind = "onWindowStateChanged"}
           pending(bag) == BagCardinality([t \in rejoins(bag) |-> bag[t]])
       IN  /\ last'.op = "windowStateChanged"
                => /\ chatboxes' = chatboxes
                   /\ sent' = {}
                   /\ pending(tasks') = pending(tasks)
                          + (IF last'.state = "visible" /\ last'.connected THEN 1 ELSE 0)
           /\ last'.op = "windowStateChanged.rejoin"
                => /\ pending(tasks') = pending(tasks) - 1
                   /\ DOMAIN chatboxes' = DOMAIN chatboxes
                   /\ \A i \in DOMAIN chatboxes :
                         chatboxes'[i].connection_status =
                             IF i \in Rooms(chatboxes)
                                /\ chatboxes[i].connection_status # CONNECTED
                             THEN CONNECTING
                             ELSE chatboxes[i].connection_status
                   /\ sent' = {i \in Rooms(chatboxes) :
                                  chatboxes[i].connection_status # CONNECTED}
           /\ pending(tasks') > pending(tasks)
                => /\ last'.op = "windowStateChanged"
                   /\ last'.state = "visible" /\ last'.connected
           /\ pending(tasks') < pending(tasks)
                => last'.op = "windowStateChanged.rejoin"]_vars

\* The window became visible while the connection was down, with a room
\* that is initialized and disconnected and no rejoin under way.
C17_Witness ==
    /\ last.op = "windowStateChanged"
    /\ last.state = "visible" /\ ~last.connected
    /\ \A t \in BagToSet(tasks) : t.kind # "onWindowStateChanged"
    /\ \E i \in Rooms(chatboxes) :
          chatboxes[i].initialized /\ chatboxes[i].connection_status = DISCONNECTED

\* C20: a page unload of a resumable session (resumption enabled and a
\* resumption token present) changes no chatbox's connection_status, whatever
\* the transport: a connected room stays connected.
C20_UnloadResumable ==
    last.op = "unload" /\ last.resumable
        => DOMAIN chatboxes = DOMAIN before /\ StatusOf(chatboxes) = before

\* The page unloaded over a websocket with a resumable session, with a
\* connected room and a connecting room in the directory.
C20_Witness ==
    /\ last.op = "unload" /\ last.websocket /\ last.resumable
    /\ \E i \in Rooms(chatboxes) : chatboxes[i].connection_status = CONNECTED
    /\ \E i \in Rooms(chatboxes) : chatboxes[i].connection_status = CONNECTING

====
